---------------------------- MODULE Spec2Model ----------------------------
(***************************************************************************)
(* A model of the SEO content optimizer (23newsindia/seo0977).             *)
(*                                                                         *)
(* src/src/App.tsx holds the eight SEO checks and the readability          *)
(* analyzer; src/unnamed/part_000 holds the same eight checks, an older    *)
(* readability analyzer and the App component that calls them              *)
(* (analyzeSEO, handlePaste, handleFormat, improveReadability,             *)
(* handleContentChange).                                                   *)
(*                                                                         *)
(* Conventions of the model:                                               *)
(*  - a JavaScript string is a sequence of one-character strings;          *)
(*  - a JavaScript number is a record: a normalised fraction (k = "num"),  *)
(*    NaN (k = "nan") or a signed infinity (k = "inf").  Arithmetic on     *)
(*    fractions is exact: the IEEE-754 rounding of each double operation   *)
(*    is not modelled, so Math.round can differ from the program's where   *)
(*    the exact value is a tie (x.5);                                      *)
(*  - a value that may be null (the result of String.match) is a record    *)
(*    with an isNull flag, and a function whose code would dereference     *)
(*    null returns a result with threw = TRUE.                             *)
(***************************************************************************)
EXTENDS Integers, Sequences, FiniteSets, TLC

(***************************************************************************)
(* Characters and character classes of the regular expressions.            *)
(***************************************************************************)
NL == "\n"
TAB == "\t"
SP == " "

\* \s of the regular expressions, restricted to the characters of the model
Whitespace == {SP, NL, TAB}
IsWs(c) == c \in Whitespace

\* the line terminator that "." does not match and that ^ and $ see under /m
IsLineTerminator(c) == c = NL

UpperCase == <<"A","B","C","D","E","F","G","H","I","J","K","L","M",
               "N","O","P","Q","R","S","T","U","V","W","X","Y","Z">>
LowerCase == <<"a","b","c","d","e","f","g","h","i","j","k","l","m",
               "n","o","p","q","r","s","t","u","v","w","x","y","z">>

\* [a-z]
IsLowerLetter(c) == \E i \in 1..26 : LowerCase[i] = c

\* String.prototype.toLowerCase, one character
toLowerCaseChar(c) ==
  IF \E i \in 1..26 : UpperCase[i] = c
  THEN LowerCase[CHOOSE i \in 1..26 : UpperCase[i] = c]
  ELSE c

\* String.prototype.toLowerCase
toLowerCase(s) == [i \in 1..Len(s) |-> toLowerCaseChar(s[i])]

Min(S) == CHOOSE x \in S : \A y \in S : x <= y
Max(S) == -Min({-x : x \in S})

\* String.prototype.repeat for a one-character string
Repeat(c, n) == [i \in 1..n |-> c]

\* a string literal as the sequence of its characters
Chars(str) == [i \in 1..Len(str) |-> SubSeq(str, i, i)]

\* s.substring(a, b) with 0-based a <= b, as the handlers call it
substring(s, a, b) == SubSeq(s, a + 1, b)

\* String.prototype.includes
includes(s, sub) ==
  \E i \in 1..(Len(s) - Len(sub) + 1) : SubSeq(s, i, i + Len(sub) - 1) = sub

\* String.prototype.startsWith
startsWith(s, pre) == Len(s) >= Len(pre) /\ SubSeq(s, 1, Len(pre)) = pre

\* String.prototype.trim: the text without its leading and trailing whitespace
trim(s) ==
  LET keep == {i \in 1..Len(s) : ~IsWs(s[i])}
  IN IF keep = {} THEN <<>> ELSE SubSeq(s, Min(keep), Max(keep))

\* index of the first c in s at or after from, 0 when there is none
IndexOfFrom(s, c, from) ==
  LET at == {j \in from..Len(s) : s[j] = c}
  IN IF at = {} THEN 0 ELSE Min(at)

\* last index of the line that holds position i (the place $ matches under /m);
\* i - 1 when position i is itself a line terminator or past the end
EndOfLine(s, i) ==
  LET stops == {j \in i..Len(s) : IsLineTerminator(s[j])}
  IN IF stops = {} THEN Len(s) ELSE Min(stops) - 1

\* ^ under the m flag
AtLineStart(s, i) == i = 1 \/ IsLineTerminator(s[i - 1])

\* last index of the maximal whitespace run starting at i (i - 1 when empty)
WsRunEnd(s, i) ==
  LET stops == {j \in i..Len(s) : ~IsWs(s[j])}
  IN IF stops = {} THEN Len(s) ELSE Min(stops) - 1

(***************************************************************************)
(* JavaScript numbers.                                                     *)
(***************************************************************************)
Abs(x) == IF x < 0 THEN -x ELSE x

RECURSIVE Gcd(_, _)
Gcd(a, b) ==
  CHOOSE g \in {IF y = 0 THEN x ELSE Gcd(y, x % y) : x \in {a}, y \in {b}} : TRUE

\* the fraction n/d (d # 0) in lowest terms with a positive denominator
Num(n, d) ==
  CHOOSE num \in
    {[k |-> "num", n |-> (IF q < 0 THEN -1 ELSE 1) * (p \div g),
      d |-> (IF q < 0 THEN -1 ELSE 1) * (q \div g)] :
     p \in {n}, q \in {d}, g \in {Gcd(Abs(n), Abs(d))}} : TRUE

NaN == [k |-> "nan", n |-> 0, d |-> 1]
Infinity == [k |-> "inf", n |-> 1, d |-> 1]
NegInfinity == [k |-> "inf", n |-> -1, d |-> 1]

Sign(x) == IF x.n > 0 THEN 1 ELSE IF x.n < 0 THEN -1 ELSE 0

\* The operators below take the values of their operands once, as JavaScript
\* evaluates the operands of an operator before it applies the operator: x and
\* y are the values of a and b.

\* a + b
jsAdd(a, b) ==
  CHOOSE sum \in
    {IF x.k = "nan" \/ y.k = "nan" THEN NaN
     ELSE IF x.k = "inf" /\ y.k = "inf" THEN (IF x.n = y.n THEN x ELSE NaN)
     ELSE IF x.k = "inf" THEN x
     ELSE IF y.k = "inf" THEN y
     ELSE LET g == Gcd(x.d, y.d)
          IN Num(x.n * (y.d \div g) + y.n * (x.d \div g), x.d * (y.d \div g)) :
     x \in {a}, y \in {b}} : TRUE

\* -a
jsNeg(a) ==
  CHOOSE neg \in {IF x.k = "nan" THEN NaN ELSE [x EXCEPT !.n = -x.n] : x \in {a}} : TRUE

\* a - b
jsSub(a, b) == jsAdd(a, jsNeg(b))

\* a * b
jsMul(a, b) ==
  CHOOSE product \in
    {IF x.k = "nan" \/ y.k = "nan" THEN NaN
     ELSE IF x.k = "inf" \/ y.k = "inf"
          THEN (IF Sign(x) * Sign(y) = 0 THEN NaN
                ELSE IF Sign(x) * Sign(y) > 0 THEN Infinity ELSE NegInfinity)
     ELSE LET g1 == Gcd(Abs(x.n), y.d)
              g2 == Gcd(Abs(y.n), x.d)
          IN Num((x.n \div g1) * (y.n \div g2), (x.d \div g2) * (y.d \div g1)) :
     x \in {a}, y \in {b}} : TRUE

\* a / b
jsDiv(a, b) ==
  CHOOSE quotient \in
    {IF x.k = "nan" \/ y.k = "nan" THEN NaN
     ELSE IF x.k = "inf" THEN (IF y.k = "inf" THEN NaN
                               ELSE IF Sign(y) < 0 THEN jsNeg(x) ELSE x)
     ELSE IF y.k = "inf" THEN Num(0, 1)
     ELSE IF y.n = 0 THEN (IF x.n = 0 THEN NaN
                           ELSE IF x.n > 0 THEN Infinity ELSE NegInfinity)
     ELSE jsMul(x, Num(y.d, y.n)) :
     x \in {a}, y \in {b}} : TRUE

\* a < b (false when either is NaN)
jsLess(a, b) ==
  \E x \in {a}, y \in {b} :
    /\ x.k # "nan" /\ y.k # "nan"
    /\ IF x.k = "inf" THEN x.n < 0 /\ ~(y.k = "inf" /\ y.n < 0)
       ELSE IF y.k = "inf" THEN y.n > 0
       ELSE LET g == Gcd(x.d, y.d)
            IN x.n * (y.d \div g) < y.n * (x.d \div g)

\* a > b
jsGreater(a, b) == jsLess(b, a)

\* Math.max(a, b)
MathMax(a, b) ==
  CHOOSE max \in
    {IF x.k = "nan" \/ y.k = "nan" THEN NaN ELSE IF jsLess(x, y) THEN y ELSE x :
     x \in {a}, y \in {b}} : TRUE

\* Math.min(a, b)
MathMin(a, b) ==
  CHOOSE min \in
    {IF x.k = "nan" \/ y.k = "nan" THEN NaN ELSE IF jsLess(y, x) THEN y ELSE x :
     x \in {a}, y \in {b}} : TRUE

\* Math.round(a): the nearest integer, a tie going up
MathRound(a) ==
  CHOOSE rounded \in
    {IF x.k # "num" THEN x ELSE Num((2 * x.n + x.d) \div (2 * x.d), 1) : x \in {a}} : TRUE

\* an integer as a number
Int2Num(i) == Num(i, 1)

\* a number that is an integer within lo..hi
IsIntegerIn(a, lo, hi) == a.k = "num" /\ a.d = 1 /\ a.n >= lo /\ a.n <= hi

(***************************************************************************)
(* String.prototype.split and String.prototype.match, for the regular      *)
(* expressions the program uses.                                           *)
(***************************************************************************)
\* s.split(re) where re matches the maximal runs, at least minLen long, of
\* the characters of seps (/\s+/, /[.!?]+/, /\n\n+/): the pieces between the
\* runs, the empty pieces at either end included
SplitOnRuns(s, seps, minLen) ==
  LET n == Len(s)
      IsSep(c) == c \in seps
      First(i) == /\ IsSep(s[i]) /\ (i = 1 \/ ~IsSep(s[i - 1]))
                  /\ i + minLen - 1 <= n
                  /\ \A j \in i..(i + minLen - 1) : IsSep(s[j])
      Last(i) == /\ IsSep(s[i]) /\ (i = n \/ ~IsSep(s[i + 1]))
                 /\ i - minLen + 1 >= 1
                 /\ \A j \in (i - minLen + 1)..i : IsSep(s[j])
      PieceStart(i) == i = 1 \/ Last(i - 1)
      PieceEnd(i) == i = n \/ First(i + 1)
      starts == SelectSeq([i \in 1..(n + 1) |-> i], PieceStart)
      ends == SelectSeq([i \in 1..(n + 1) |-> i - 1], PieceEnd)
  IN [p \in 1..Len(starts) |-> SubSeq(s, starts[p], ends[p])]

\* the characters of /\n\n+/ and of /[.!?]+/
Newlines == {NL}
SentenceEnds == {".", "!", "?"}
IsSentenceEnd(c) == c \in SentenceEnds

\* a value that may be null: null itself, or an array
Null == [isNull |-> TRUE, items |-> <<>>]
Array(items) == [isNull |-> FALSE, items |-> items]

\* x, without the "|| []" that follows the match
WithoutOrEmptyArray(x) == x

\* x || []
OrEmptyArray(x) == IF x.isNull THEN Array(<<>>) ELSE x

\* For /^#{1,6}\s+.+$/m at a line start i with h '#' characters: the last
\* whitespace index that \s+ keeps, 0 when there is no match.  \s+ is greedy
\* and gives characters back until ".+" finds a character that is no line
\* terminator.
HeadingWsEnd(s, i, h) ==
  LET e == WsRunEnd(s, i + h)
      ok == {w \in (i + h)..e : w + 1 <= Len(s) /\ ~IsLineTerminator(s[w + 1])}
  IN IF ok = {} THEN 0 ELSE Max(ok)

\* text.match(/^#\s+(.+)$/m): null, or <<the match, the captured title>>
MatchTitle(s) ==
  LET At(i) == s[i] = "#" /\ AtLineStart(s, i) /\ HeadingWsEnd(s, i, 1) # 0
      starts == {i \in 1..Len(s) : At(i)}
  IN IF starts = {} THEN Null
     ELSE LET i == Min(starts)
              w == HeadingWsEnd(s, i, 1)
              e == EndOfLine(s, w + 1)
          IN Array(<<SubSeq(s, i, e), SubSeq(s, w + 1, e)>>)

\* number of '#' characters in the run that starts at i
HashRun(s, i) ==
  LET stops == {j \in i..Len(s) : s[j] # "#"}
  IN (IF stops = {} THEN Len(s) + 1 ELSE Min(stops)) - i

\* last index of the match of /^#{1,6}\s+.+$/m that starts at i, 0 for none
HeadingEnd(s, i) ==
  IF s[i] = "#" /\ AtLineStart(s, i) /\ HashRun(s, i) <= 6
     /\ HeadingWsEnd(s, i, HashRun(s, i)) # 0
  THEN EndOfLine(s, HeadingWsEnd(s, i, HashRun(s, i)) + 1)
  ELSE 0

\* last index of the match of /\[([^\]]+)\]\(([^)]+)\)/ that starts at i
LinkEnd(s, i) ==
  IF s[i] # "[" THEN 0
  ELSE LET j == IndexOfFrom(s, "]", i + 1)
       IN IF j < i + 2 \/ j + 1 > Len(s) \/ s[j + 1] # "(" THEN 0
          ELSE LET k == IndexOfFrom(s, ")", j + 2)
               IN IF k < j + 3 THEN 0 ELSE k

\* last index of the match of /!\[([^\]]*)\]\(([^)]+)\)/ that starts at i
ImageEnd(s, i) ==
  IF s[i] # "!" \/ i + 1 > Len(s) \/ s[i + 1] # "[" THEN 0
  ELSE LET j == IndexOfFrom(s, "]", i + 2)
       IN IF j = 0 \/ j + 1 > Len(s) \/ s[j + 1] # "(" THEN 0
          ELSE LET k == IndexOfFrom(s, ")", j + 2)
               IN IF k < j + 3 THEN 0 ELSE k

\* for each index of s, the last index of the match that starts there, 0 when
\* none starts there
HeadingEnds(s) == [i \in 1..Len(s) |-> HeadingEnd(s, i)]
LinkEnds(s) == [i \in 1..Len(s) |-> LinkEnd(s, i)]
ImageEnds(s) == [i \in 1..Len(s) |-> ImageEnd(s, i)]

\* the matches of a global regular expression from position pos on, left to
\* right and not overlapping; ends[i] is the end of the match that starts at i
RECURSIVE MatchesFrom(_, _, _)
MatchesFrom(s, ends, pos) ==
  LET starts == {i \in pos..Len(s) : ends[i] # 0}
  IN IF starts = {} THEN <<>>
     ELSE LET i == Min(starts)
          IN <<SubSeq(s, i, ends[i])>> \o MatchesFrom(s, ends, ends[i] + 1)

\* s.match(re) for a global re: null when nothing matches
MatchAll(s, ends) ==
  LET ms == MatchesFrom(s, ends, 1)
  IN IF ms = <<>> THEN Null ELSE Array(ms)

(***************************************************************************)
(* The eight SEO checks (src/src/App.tsx, the same text in part_000).      *)
(***************************************************************************)
\* an SEOCheckResult
Result(score, suggestions) ==
  [threw |-> FALSE, score |-> score, suggestions |-> suggestions]

\* the outcome of a call that throws a TypeError for reading a property of null
Thrown == [threw |-> TRUE, score |-> NaN, suggestions |-> <<>>]

\* names every object inherits, which wordFrequency[word] reads from
\* Object.prototype before the word is a property of wordFrequency itself
InheritedNames == {Chars("constructor"), Chars("__proto__")}

\* the value of wordFrequency[word] after the forEach, for a word counted
\* times times: a count, or for an inherited name a value ("function ...1")
\* that compares with 1 as NaN does
WordFrequencyValue(word, times) ==
  IF word \in InheritedNames THEN NaN ELSE Int2Num(times)

calculateKeywordDensity(text) ==
  LET words == SplitOnRuns(toLowerCase(text), Whitespace, 1)
      long == {p \in 1..Len(words) : Len(words[p]) > 3}
      keys == {words[p] : p \in long}
      wordFrequency ==
        [w \in keys |->
           WordFrequencyValue(w, Cardinality({p \in long : words[p] = w}))]
      repeated == {w \in keys : jsGreater(wordFrequency[w], Int2Num(1))}
      keywordsLength == IF Cardinality(repeated) > 5 THEN 5
                        ELSE Cardinality(repeated)
  IN IF keywordsLength = 0
     THEN Result(Num(3, 10),
       <<"No clear keywords found. Consider using relevant keywords multiple times.">>)
     ELSE IF keywordsLength < 3
     THEN Result(Num(6, 10),
       <<"Limited keyword usage. Try incorporating more relevant keywords.">>)
     ELSE Result(Num(1, 1), <<>>)

checkTitleLength(text) ==
  LET titleMatch == MatchTitle(text)
  IN IF titleMatch.isNull
     THEN Result(Num(0, 1),
       <<"No main title (H1) found. Add a clear title at the beginning.">>)
     ELSE LET titleLength == Len(titleMatch.items[2])
          IN IF titleLength < 30
             THEN Result(Num(5, 10),
               <<"Title is too short. Aim for 50-60 characters for better SEO.">>)
             ELSE IF titleLength > 60
             THEN Result(Num(7, 10),
               <<"Title is too long. Keep it under 60 characters for better visibility in search results.">>)
             ELSE Result(Num(1, 1), <<>>)

\* text.split('\n\n')[0]
FirstBlock(text) ==
  LET at == {i \in 1..(Len(text) - 1) : text[i] = NL /\ text[i + 1] = NL}
  IN IF at = {} THEN text ELSE SubSeq(text, 1, Min(at) - 1)

\* p.replace(/^#.*\n/, ''): without its first line, when the text starts with
\* '#' and that line ends in a line break
StripHeadingLine(p) ==
  IF Len(p) > 0 /\ p[1] = "#" /\ IndexOfFrom(p, NL, 1) # 0
  THEN SubSeq(p, IndexOfFrom(p, NL, 1) + 1, Len(p))
  ELSE p

checkMetaDescription(text) ==
  LET firstParagraph == trim(StripHeadingLine(FirstBlock(text)))
  IN IF firstParagraph = <<>>
     THEN Result(Num(0, 1),
       <<"Add a clear introductory paragraph that summarizes your content.">>)
     ELSE IF Len(firstParagraph) < 120
     THEN Result(Num(5, 10),
       <<"Introduction is too short. Aim for 150-160 characters for better search visibility.">>)
     ELSE IF Len(firstParagraph) > 160
     THEN Result(Num(7, 10),
       <<"Introduction is too long. Keep it under 160 characters for optimal display in search results.">>)
     ELSE Result(Num(1, 1), <<>>)

checkHeadings(text) ==
  LET headings == OrEmptyArray(MatchAll(text, HeadingEnds(text)))
  IN IF headings.isNull THEN Thrown
     ELSE IF Len(headings.items) = 0
     THEN Result(Num(0, 1),
       <<"No headings found. Use headings to structure your content.">>)
     ELSE
       LET hs == headings.items
           h1Count == Cardinality({p \in 1..Len(hs) : startsWith(hs[p], Chars("# "))})
           hasSubheadings == \E p \in 1..Len(hs) : startsWith(hs[p], Chars("## "))
           first == IF h1Count = 0
                    THEN Result(Num(3, 10), <<"Add a main heading (H1) to your content.">>)
                    ELSE IF h1Count > 1
                    THEN Result(Num(5, 10),
                      <<"Multiple H1 headings found. Use only one main heading.">>)
                    ELSE Result(Num(1, 1), <<>>)
       IN IF ~hasSubheadings
          THEN Result(jsMul(first.score, Num(7, 10)),
                 Append(first.suggestions,
                   "Add subheadings (H2, H3) to better structure your content."))
          ELSE first

checkLinks(text) ==
  LET links == OrEmptyArray(MatchAll(text, LinkEnds(text)))
  IN IF links.isNull THEN Thrown
     ELSE IF Len(links.items) = 0
     THEN Result(Num(5, 10),
       <<"No links found. Add relevant internal or external links to enhance content value.">>)
     ELSE
       LET hasEmptyAnchors ==
             \E p \in 1..Len(links.items) : includes(links.items[p], Chars("[]"))
       IN IF hasEmptyAnchors
          THEN Result(Num(7, 10),
            <<"Some links have empty anchor text. Add descriptive text to all links.">>)
          ELSE Result(Num(1, 1), <<>>)

\* checkImageAlt with the suggestion pushed and the score left at 1
checkImageAltWithoutPenalty(text) ==
  LET images == OrEmptyArray(MatchAll(text, ImageEnds(text)))
  IN IF images.isNull THEN Thrown
     ELSE IF Len(images.items) > 0
             /\ \E p \in 1..Len(images.items) :
                   includes(images.items[p], Chars("![]("))
     THEN Result(Num(1, 1),
       <<"Some images are missing alt text. Add descriptive alt text to all images.">>)
     ELSE Result(Num(1, 1), <<>>)

checkImageAlt(text) ==
  LET images == OrEmptyArray(MatchAll(text, ImageEnds(text)))
  IN IF images.isNull THEN Thrown
     ELSE IF Len(images.items) > 0
             /\ \E p \in 1..Len(images.items) :
                   includes(images.items[p], Chars("![]("))
     THEN Result(Num(5, 10),
       <<"Some images are missing alt text. Add descriptive alt text to all images.">>)
     ELSE Result(Num(1, 1), <<>>)

checkContentLength(text) ==
  LET wordCount == Len(SplitOnRuns(text, Whitespace, 1))
  IN IF wordCount < 300
     THEN Result(Num(3, 10),
       <<"Content is too short. Aim for at least 300 words for better SEO.">>)
     ELSE IF wordCount < 600
     THEN Result(Num(7, 10),
       <<"Consider adding more content. Long-form content (1000+ words) typically ranks better.">>)
     ELSE Result(Num(1, 1), <<>>)

checkParagraphLength(text) ==
  LET paragraphs == SplitOnRuns(text, Newlines, 2)
      longParagraphs ==
        {p \in 1..Len(paragraphs) : Len(SplitOnRuns(paragraphs[p], Whitespace, 1)) > 150}
  IN IF Cardinality(longParagraphs) > 0
     THEN Result(Num(7, 10),
       <<"Some paragraphs are too long. Break them into smaller chunks for better readability.">>)
     ELSE Result(Num(1, 1), <<>>)

(***************************************************************************)
(* The readability analyzer of src/src/App.tsx.                            *)
(***************************************************************************)
\* sum of a sequence of integers (Array.prototype.reduce with +, from 0)
RECURSIVE SumRange(_, _, _)
SumRange(xs, lo, hi) ==
  IF lo > hi THEN 0
  ELSE IF lo = hi THEN xs[lo]
  ELSE LET mid == (lo + hi) \div 2
       IN SumRange(xs, lo, mid) + SumRange(xs, mid + 1, hi)

Sum(xs) == SumRange(xs, 1, Len(xs))

IsAEIOU(c) == c \in {"a", "e", "i", "o", "u"}
IsAEIOUY(c) == c \in {"a", "e", "i", "o", "u", "y"}

\* w.replace(/e\b/g, '') for a w of lower-case letters only: \b follows an
\* 'e' only at the end of such a w
StripFinalE(w) ==
  IF Len(w) > 0 /\ w[Len(w)] = "e" THEN SubSeq(w, 1, Len(w) - 1) ELSE w

\* w.replace(/[aeiou]{2,}/g, 'a')
CollapseVowels(w) ==
  LET Keep(i) == ~(IsAEIOU(w[i]) /\ i > 1 /\ IsAEIOU(w[i - 1]))
      kept == SelectSeq([i \in 1..Len(w) |-> i], Keep)
  IN [p \in 1..Len(kept) |->
        IF IsAEIOU(w[kept[p]]) /\ kept[p] < Len(w) /\ IsAEIOU(w[kept[p] + 1])
        THEN "a" ELSE w[kept[p]]]

\* s.match(/[aeiouy]/g): null when s holds none of these letters
MatchVowels(s) ==
  LET ms == SelectSeq(s, IsAEIOUY)
  IN IF ms = <<>> THEN Null ELSE Array(ms)

countSyllables(text) ==
  LET letters == SelectSeq(toLowerCase(text), IsLowerLetter)
      word == MatchVowels(CollapseVowels(StripFinalE(letters)))
  IN IF word.isNull THEN 0 ELSE Len(word.items)

\* s.trim().length > 0
NotBlank(s) == Len(trim(s)) > 0
\* w.length > 0
NotEmpty(w) == Len(w) > 0

\* text.split(/[.!?]+/) without the filter
SentencesUnfiltered(text) == SplitOnRuns(text, SentenceEnds, 1)

\* text.split(/[.!?]+/).filter(s => s.trim().length > 0)
Sentences(text) == SelectSeq(SplitOnRuns(text, SentenceEnds, 1), NotBlank)

\* text.split(/\s+/).filter(w => w.length > 0)
Words(text) == SelectSeq(SplitOnRuns(text, Whitespace, 1), NotEmpty)

\* words.reduce((count, word) => count + countSyllables(word), 0)
SyllablesOf(words) == Sum([p \in 1..Len(words) |-> countSyllables(words[p])])

\* 0.39 * avgSentenceLength + 11.8 * avgSyllablesPerWord - 15.59
GradeLevel(avgSentenceLength, avgSyllablesPerWord) ==
  jsSub(jsAdd(jsMul(Num(39, 100), avgSentenceLength),
              jsMul(Num(118, 10), avgSyllablesPerWord)),
        Num(1559, 100))

calculateReadabilityScore(text) ==
  LET sentences == Sentences(text)
      words == Words(text)
  IN IF Len(sentences) = 0 \/ Len(words) = 0 THEN Int2Num(100)
     ELSE
       LET syllables == SyllablesOf(words)
           avgSentenceLength == jsDiv(Int2Num(Len(words)), Int2Num(Len(sentences)))
           avgSyllablesPerWord == jsDiv(Int2Num(syllables), Int2Num(Len(words)))
           grade == GradeLevel(avgSentenceLength, avgSyllablesPerWord)
           score == MathMax(Int2Num(0),
                      MathMin(Int2Num(100),
                        jsSub(Int2Num(100), jsMul(grade, Int2Num(8)))))
       IN MathRound(score)

\* SentenceClass with the test for "hard" made before the test for "veryHard"
SentenceClassHardFirst(sentence) ==
  LET words == SplitOnRuns(trim(sentence), Whitespace, 1)
      wordCount == Len(words)
      avgSyllablesPerWord == jsDiv(Int2Num(SyllablesOf(words)), Int2Num(wordCount))
  IN IF wordCount > 20 \/ jsGreater(avgSyllablesPerWord, Num(2, 1))
     THEN "hard"
     ELSE IF wordCount > 30 \/ jsGreater(avgSyllablesPerWord, Num(25, 10))
     THEN "veryHard"
     ELSE "normal"

\* the class the forEach of analyzeReadability gives one sentence
SentenceClass(sentence) ==
  LET words == SplitOnRuns(trim(sentence), Whitespace, 1)
      wordCount == Len(words)
      syllables == SyllablesOf(words)
      avgSyllablesPerWord == jsDiv(Int2Num(syllables), Int2Num(wordCount))
  IN IF wordCount > 30 \/ jsGreater(avgSyllablesPerWord, Num(25, 10))
     THEN "veryHard"
     ELSE IF wordCount > 20 \/ jsGreater(avgSyllablesPerWord, Num(2, 1))
     THEN "hard"
     ELSE "normal"

IsHard(sentence) == SentenceClass(sentence) = "hard"
IsVeryHard(sentence) == SentenceClass(sentence) = "veryHard"

\* the sentences of one class, trimmed, in the order of the text
Trimmed(ss) == [p \in 1..Len(ss) |-> trim(ss[p])]

analyzeReadability(text) ==
  LET sentences == Sentences(text)
      words == Words(text)
      totalSyllables == SyllablesOf(words)
      grade == MathRound(
                 GradeLevel(jsDiv(Int2Num(Len(words)), Int2Num(Len(sentences))),
                            jsDiv(Int2Num(totalSyllables), Int2Num(Len(words)))))
  IN [score |-> calculateReadabilityScore(text),
      hardSentences |-> Trimmed(SelectSeq(sentences, IsHard)),
      veryHardSentences |-> Trimmed(SelectSeq(sentences, IsVeryHard)),
      grade |-> MathMax(Int2Num(1), MathMin(Int2Num(12), grade))]

(***************************************************************************)
(* The readability analyzer of src/unnamed/part_000, which the App         *)
(* component of that file calls.                                           *)
(***************************************************************************)
\* s.split(c) for a one-character c: the pieces between the occurrences of c
SplitOnChar(s, c) ==
  LET n == Len(s)
      PieceStart(i) == i = 1 \/ s[i - 1] = c
      PieceEnd(i) == i = n \/ s[i + 1] = c
      starts == SelectSeq([i \in 1..(n + 1) |-> i], PieceStart)
      ends == SelectSeq([i \in 1..(n + 1) |-> i - 1], PieceEnd)
  IN [p \in 1..Len(starts) |-> SubSeq(s, starts[p], ends[p])]

\* s.split(' ')
SplitOnSpace(s) == SplitOnChar(s, SP)

\* w.replace(/[^aeiouy]+/g, ' ')
SpaceOutConsonants(w) ==
  LET Keep(i) == IsAEIOUY(w[i]) \/ i = 1 \/ IsAEIOUY(w[i - 1])
      kept == SelectSeq([i \in 1..Len(w) |-> i], Keep)
  IN [p \in 1..Len(kept) |-> IF IsAEIOUY(w[kept[p]]) THEN w[kept[p]] ELSE SP]

\* each method of the chain is applied to the value the one before returned
countSyllables_part000(text) ==
  CHOOSE count \in
    {Len(SelectSeq(pieces, NotEmpty)) :
       pieces \in {SplitOnSpace(trimmed) :
         trimmed \in {trim(spaced) :
           spaced \in {SpaceOutConsonants(letters) :
             letters \in {SelectSeq(toLowerCase(text), IsLowerLetter)}}}}} : TRUE

calculateReadabilityScore_part000(text) ==
  CHOOSE score \in
    {LET avgWordsPerSentence == jsDiv(Int2Num(Len(words)), Int2Num(Len(sentences)))
         avgSyllablesPerWord == jsDiv(Int2Num(syllables), Int2Num(Len(words)))
         readabilityScore ==
           jsSub(jsSub(Num(206835, 1000), jsMul(Num(1015, 1000), avgWordsPerSentence)),
                 jsMul(Num(846, 10), avgSyllablesPerWord))
     IN MathMin(Int2Num(100), MathMax(Int2Num(0), MathRound(readabilityScore))) :
     sentences \in {SplitOnRuns(text, SentenceEnds, 1)},
     words \in {SplitOnRuns(text, Whitespace, 1)},
     syllables \in {countSyllables_part000(text)}} : TRUE

SentenceClass_part000(sentence) ==
  LET words == SplitOnRuns(trim(sentence), Whitespace, 1)
      syllables == countSyllables_part000(sentence)
      avgSyllablesPerWord == jsDiv(Int2Num(syllables), Int2Num(Len(words)))
  IN IF jsGreater(avgSyllablesPerWord, Num(25, 10)) \/ Len(words) > 30
     THEN "veryHard"
     ELSE IF jsGreater(avgSyllablesPerWord, Num(2, 1)) \/ Len(words) > 20
     THEN "hard"
     ELSE "normal"

IsHard_part000(sentence) == SentenceClass_part000(sentence) = "hard"
IsVeryHard_part000(sentence) == SentenceClass_part000(sentence) = "veryHard"

analyzeReadability_part000(text) ==
  LET sentences == Sentences(text)
      words == Words(text)
      totalSyllables == countSyllables_part000(text)
      grade == MathRound(
                 GradeLevel(jsDiv(Int2Num(Len(words)), Int2Num(Len(sentences))),
                            jsDiv(Int2Num(totalSyllables), Int2Num(Len(words)))))
  IN [score |-> calculateReadabilityScore_part000(text),
      hardSentences |-> Trimmed(SelectSeq(sentences, IsHard_part000)),
      veryHardSentences |-> Trimmed(SelectSeq(sentences, IsVeryHard_part000)),
      grade |-> MathMax(Int2Num(1), MathMin(Int2Num(12), grade))]

(***************************************************************************)
(* The App component of src/unnamed/part_000: its state and analyzeSEO.    *)
(***************************************************************************)
VARIABLES
  content,            \* useState('')
  seoScore,           \* useState(0)
  readabilityScore,   \* useState(0)
  suggestions,        \* useState([])
  loading,            \* useState(false)
  error,              \* useState(null): "null" or the message shown
  hardSentences,      \* useState([])
  veryHardSentences,  \* useState([])
  grade,              \* useState(0)
  request,            \* the hf.textGeneration call improveReadability awaits
  text,               \* the argument of the function under study
  called,             \* the function or handler that ran last
  ret                 \* what it returned

analysis == <<seoScore, readabilityScore, suggestions, hardSentences,
              veryHardSentences, grade>>
ui == <<content, seoScore, readabilityScore, suggestions, loading, error,
        hardSentences, veryHardSentences, grade, request>>
vars == <<content, seoScore, readabilityScore, suggestions, loading, error,
          hardSentences, veryHardSentences, grade, request, text, called, ret>>

NoRequest == [pending |-> FALSE, text |-> <<>>]
NoValue == [threw |-> FALSE]

\* the outcome of a call that returns value
Returned(value) == [threw |-> FALSE, value |-> value]

\* the state of the component as first rendered
InitUI ==
  /\ content = <<>>
  /\ seoScore = Int2Num(0)
  /\ readabilityScore = Int2Num(0)
  /\ suggestions = <<>>
  /\ loading = FALSE
  /\ error = "null"
  /\ hardSentences = <<>>
  /\ veryHardSentences = <<>>
  /\ grade = Int2Num(0)
  /\ request = NoRequest

\* the checks with titleLength listed before keywordDensity
seoChecksTitleFirst(t) ==
  <<checkTitleLength(t), calculateKeywordDensity(t), checkMetaDescription(t),
    checkHeadings(t), checkLinks(t), checkImageAlt(t), checkContentLength(t),
    checkParagraphLength(t)>>

\* the checks with contentLength listed before keywordDensity
seoChecksContentLengthFirst(t) ==
  <<checkContentLength(t), calculateKeywordDensity(t), checkTitleLength(t),
    checkMetaDescription(t), checkHeadings(t), checkLinks(t), checkImageAlt(t),
    checkParagraphLength(t)>>

\* Object.values(seoChecks), in the order the object literal lists them
seoChecks(t) ==
  <<calculateKeywordDensity(t), checkTitleLength(t), checkMetaDescription(t),
    checkHeadings(t), checkLinks(t), checkImageAlt(t), checkContentLength(t),
    checkParagraphLength(t)>>

\* checks.reduce((acc, val) => acc + val.score, 0), over the first n checks
RECURSIVE SumScores(_, _)
SumScores(checks, n) ==
  IF n = 0 THEN Int2Num(0)
  ELSE CHOOSE sum \in {jsAdd(acc, val.score) :
                         acc \in {SumScores(checks, n - 1)}, val \in {checks[n]}} : TRUE

\* checks.filter(c => c.suggestions.length > 0).flatMap(c => c.suggestions),
\* over the first n checks
RECURSIVE FlatSuggestions(_, _)
FlatSuggestions(checks, n) ==
  IF n = 0 THEN <<>>
  ELSE FlatSuggestions(checks, n - 1)
         \o (IF Len(checks[n].suggestions) > 0 THEN checks[n].suggestions ELSE <<>>)

\* what analyzeSEO(t) hands to the setters; threw when a check threw, in which
\* case the async function rejects before it sets anything
AnalyzeSEOResult(t) ==
  CHOOSE r \in
    {[threw |-> \E p \in 1..Len(checks) : checks[p].threw,
      seoScore |-> MathRound(jsMul(jsDiv(SumScores(checks, Len(checks)), Int2Num(8)),
                                   Int2Num(100))),
      suggestions |-> FlatSuggestions(checks, Len(checks)),
      readabilityScore |-> readability.score,
      hardSentences |-> readability.hardSentences,
      veryHardSentences |-> readability.veryHardSentences,
      grade |-> readability.grade] :
       checks \in {seoChecks(t)}, readability \in {analyzeReadability_part000(t)}} : TRUE

\* analyzeSEO(t): the state it sets
analyzeSEO(t) ==
  \E r \in {AnalyzeSEOResult(t)} :
    IF r.threw THEN UNCHANGED analysis
    ELSE /\ seoScore' = r.seoScore
         /\ suggestions' = r.suggestions
         /\ readabilityScore' = r.readabilityScore
         /\ hardSentences' = r.hardSentences
         /\ veryHardSentences' = r.veryHardSentences
         /\ grade' = r.grade

(***************************************************************************)
(* The texts the functions are applied to.                                 *)
(***************************************************************************)
MaxLines == 3
MaxItems == 2
MaxPieces == 3
MaxRepeats == 2

\* the texts made of exactly n items of lib, joined by sep
RECURSIVE JoinExactly(_, _, _)
JoinExactly(lib, sep, n) ==
  IF n = 1 THEN lib
  ELSE {a \o sep \o b : a \in lib, b \in JoinExactly(lib, sep, n - 1)}

\* the texts made of at most n items of lib, joined by sep
JoinUpTo(lib, sep, n) ==
  {<<>>} \cup UNION {JoinExactly(lib, sep, m) : m \in 1..n}

\* lines with and without headings, joined by line breaks
HeadingLines ==
  {Chars("# a"), Chars("## a"), Chars("#"), Chars("a"), Chars("#\ta"), <<>>}
HeadingTexts == JoinUpTo(HeadingLines, <<NL>>, MaxLines)

\* titles around the 30 and 60 character limits of checkTitleLength
TitleTexts ==
  {pre \o Chars("# ") \o Repeat("x", n) \o post :
     n \in {29, 30, 60, 61}, pre \in {<<>>, Chars("a\n")}, post \in {<<>>, Chars("\nb")}}

\* first paragraphs around the 120 and 160 character limits of
\* checkMetaDescription
MetaTexts ==
  {pre \o Repeat("y", n) \o post :
     n \in {119, 120, 160, 161},
     pre \in {<<>>, Chars("# a\n"), Chars(" ")},
     post \in {<<>>, Chars("\n\nb"), Chars("\n")}}

\* markdown links and images, well formed and not, joined by spaces
LinkItems ==
  {Chars("[a](u)"), Chars("[](u)"), Chars("[a]([])"), Chars("[a]("), Chars("[a]()"),
   Chars("![](u)"), Chars("![a](u)"), Chars("![a](![]()"), Chars("![alt")}
LinkTexts == JoinUpTo(LinkItems, <<SP>>, MaxItems)

\* words, each repeated up to MaxRepeats times
KeywordWords ==
  <<Chars("data"), Chars("fish"), Chars("word"), Chars("cat"), Chars("DATA"),
    Chars("constructor")>>

RECURSIVE RepeatWord(_, _)
RepeatWord(w, n) == IF n = 0 THEN <<>> ELSE w \o <<SP>> \o RepeatWord(w, n - 1)

RECURSIVE KeywordText(_, _)
KeywordText(times, n) ==
  IF n = 0 THEN <<>>
  ELSE KeywordText(times, n - 1) \o RepeatWord(KeywordWords[n], times[n])

KeywordTexts ==
  {KeywordText(times, Len(KeywordWords)) :
     times \in [1..Len(KeywordWords) -> 0..MaxRepeats]}
  \cup {Chars("data data fish fish word word text text long long cats cats")}

\* sentence ends, whitespace and words, put side by side
Pieces == {<<".">>, Chars("?!"), <<SP>>, <<NL>>, Chars("go"), Chars("banana")}
PieceTexts == JoinUpTo(Pieces, <<>>, MaxPieces)

\* n one-letter words separated by single spaces
WordsText(n) == [i \in 1..(2 * n - 1) |-> IF i % 2 = 1 THEN "a" ELSE SP]

\* texts around the 300 and 600 word limits of checkContentLength
LongTexts == {WordsText(n) : n \in {299, 300, 599, 600}}

\* paragraphs around the 150 word limit of checkParagraphLength and texts
\* around the limits of checkContentLength, with whitespace or another
\* paragraph before and after
ParagraphTexts ==
  {pre \o WordsText(n) \o post :
     n \in {150, 151, 298, 299, 300, 598, 599, 600},
     pre \in {<<>>, <<SP>>, Chars("a\n\n")},
     post \in {<<>>, <<SP>>, <<NL>>, Chars("\n\na")}}

\* sentences around the 20 and 30 word limits and the 2.0 and 2.5 syllables
\* per word limits of analyzeReadability, joined by sentence ends
SentenceItems ==
  {Chars("go"), Chars("banana"), Chars("banana go"), Chars("banana banana go"),
   Chars("banana banana banana go"),
   WordsText(20), WordsText(21), WordsText(30), WordsText(31)}
SentenceTexts == JoinUpTo(SentenceItems, Chars(". "), MaxItems)

\* single words for countSyllables
SyllableTexts ==
  {Chars("day"), Chars("eye"), Chars("my"), Chars("improve"), Chars("variant"),
   Chars("beau"), Chars("queue"), Chars("rhythm"), Chars("Yay"), Chars("e"),
   Chars("be"), Chars("tree"), Chars("b-e"), Chars("xyz"), Chars("tsk"), Chars("42")}

\* a text that passes every check for defect = 0, and for defect = 1..8 the
\* same text with one thing wrong: few keywords, a long title, a long
\* introduction, no subheading, an empty pair of brackets in a link, an image
\* without alt text, fewer than 600 words, a paragraph of 151 words
SeoText(defect) ==
  Chars("# ") \o Repeat("x", IF defect = 2 THEN 61 ELSE 30) \o <<NL>>
    \o Repeat("y", IF defect = 3 THEN 161 ELSE 120)
    \o (IF defect = 4 THEN <<>> ELSE Chars("\n\n## b"))
    \o (IF defect = 5 THEN Chars("\n\n[a]([])") ELSE Chars("\n\n[a](u)"))
    \o (IF defect = 6 THEN Chars("\n\n![](u)") ELSE Chars("\n\n![a](u)"))
    \o (IF defect = 1 THEN Chars("\n\ndata data fish fish")
        ELSE Chars("\n\ndata data fish fish word word"))
    \o <<NL, NL>> \o WordsText(150) \o <<NL, NL>> \o WordsText(150)
    \o <<NL, NL>> \o WordsText(150)
    \o (IF defect = 7 THEN <<>> ELSE <<NL, NL>> \o WordsText(150))
    \o (IF defect = 8 THEN <<NL, NL>> \o WordsText(151) ELSE <<>>)
SeoTexts == {SeoText(defect) : defect \in 0..8}

Texts ==
  HeadingTexts \cup TitleTexts \cup MetaTexts \cup LinkTexts \cup KeywordTexts
    \cup PieceTexts \cup LongTexts \cup ParagraphTexts \cup SentenceTexts
    \cup SyllableTexts \cup SeoTexts

(***************************************************************************)
(* The functions applied to one text: a text is chosen, then one function  *)
(* is called on it.                                                        *)
(***************************************************************************)
InitFn ==
  /\ InitUI
  /\ text \in Texts
  /\ called = "none"
  /\ ret = NoValue

\* one call of a pure function f on the text
Call(name, value) ==
  /\ called = "none"
  /\ called' = name
  /\ ret' = value
  /\ UNCHANGED <<text, ui>>

Call_calculateKeywordDensity ==
  Call("calculateKeywordDensity", calculateKeywordDensity(text))
Call_checkTitleLength == Call("checkTitleLength", checkTitleLength(text))
Call_checkMetaDescription == Call("checkMetaDescription", checkMetaDescription(text))
Call_checkHeadings == Call("checkHeadings", checkHeadings(text))
Call_checkLinks == Call("checkLinks", checkLinks(text))
Call_checkImageAlt == Call("checkImageAlt", checkImageAlt(text))
Call_checkContentLength == Call("checkContentLength", checkContentLength(text))
Call_checkParagraphLength == Call("checkParagraphLength", checkParagraphLength(text))
Call_countSyllables == Call("countSyllables", Returned(countSyllables(text)))
Call_calculateReadabilityScore ==
  Call("calculateReadabilityScore", Returned(calculateReadabilityScore(text)))
Call_analyzeReadability ==
  Call("analyzeReadability", Returned(analyzeReadability(text)))

\* analyzeSEO(text), called as the handlers call it
Call_analyzeSEO ==
  /\ called = "none"
  /\ called' = "analyzeSEO"
  /\ analyzeSEO(text)
  /\ ret' = [threw |-> AnalyzeSEOResult(text).threw]
  /\ UNCHANGED <<text, content, loading, error, request>>

NextFn ==
  \/ Call_calculateKeywordDensity
  \/ Call_checkTitleLength
  \/ Call_checkMetaDescription
  \/ Call_checkHeadings
  \/ Call_checkLinks
  \/ Call_checkImageAlt
  \/ Call_checkContentLength
  \/ Call_checkParagraphLength
  \/ Call_countSyllables
  \/ Call_calculateReadabilityScore
  \/ Call_analyzeReadability
  \/ Call_analyzeSEO

SpecFn == InitFn /\ [][NextFn]_vars

(***************************************************************************)
(* The handlers of the App component (src/unnamed/part_000).  The editor   *)
(* is rendered only when supabase and hf are both configured, so hf is     *)
(* set whenever a handler runs.                                            *)
(***************************************************************************)
MaxContentLen == 4

\* a DOM text node and a DOM element
TextNode(t) ==
  [nodeType |-> "TEXT_NODE", textContent |-> t, tagName |-> "", href |-> <<>>,
   childNodes |-> <<>>]
Element(tag, href, children) ==
  [nodeType |-> "ELEMENT_NODE", textContent |-> <<>>, tagName |-> tag, href |-> href,
   childNodes |-> children]

\* what processNode adds to markdown before the children of an element
OpenTag(tagName) ==
  CASE tagName = "h1" -> Chars("\n# ")
    [] tagName = "h2" -> Chars("\n## ")
    [] tagName = "h3" -> Chars("\n### ")
    [] tagName = "h4" -> Chars("\n#### ")
    [] tagName = "h5" -> Chars("\n##### ")
    [] tagName = "h6" -> Chars("\n###### ")
    [] tagName = "p" -> Chars("\n\n")
    [] tagName \in {"strong", "b"} -> Chars("**")
    [] tagName \in {"em", "i"} -> Chars("*")
    [] tagName = "a" -> Chars("[")
    [] tagName \in {"ul", "ol"} -> Chars("\n")
    [] tagName = "li" -> Chars("- ")
    [] tagName \in {"br", "div"} -> Chars("\n")
    [] OTHER -> <<>>

\* what processNode adds to markdown after the children of an element
CloseTag(tagName, href) ==
  CASE tagName \in {"strong", "b"} -> Chars("**")
    [] tagName \in {"em", "i"} -> Chars("*")
    [] tagName = "a" -> Chars("](") \o href \o Chars(")")
    [] tagName \in {"p", "div", "h1", "h2", "h3", "h4", "h5", "h6"} -> Chars("\n")
    [] OTHER -> <<>>

\* the text processNode(node) appends to markdown; processNodes is the forEach
\* over the child nodes from the n-th on
RECURSIVE processNode(_), processNodes(_, _)
processNode(node) ==
  IF node.nodeType = "TEXT_NODE" THEN node.textContent
  ELSE OpenTag(node.tagName) \o processNodes(node.childNodes, 1)
         \o CloseTag(node.tagName, node.href)
processNodes(nodes, n) ==
  IF n > Len(nodes) THEN <<>>
  ELSE processNode(nodes[n]) \o processNodes(nodes, n + 1)

\* markdown.replace(/\n{3,}/g, '\n\n')
CollapseNewlines(s) ==
  LET Keep(i) == ~(s[i] = NL /\ i > 2 /\ s[i - 1] = NL /\ s[i - 2] = NL)
      kept == SelectSeq([i \in 1..Len(s) |-> i], Keep)
  IN [p \in 1..Len(kept) |-> s[kept[p]]]

\* the markdown handlePaste makes of the pasted nodes: tempDiv is a div
\* element that holds them
PastedMarkdown(nodes) ==
  trim(CollapseNewlines(processNode(Element("div", <<>>, nodes))))

\* lines.map(line => `- ${line}`).join('\n'), from the n-th line on
RECURSIVE ListItems(_, _)
ListItems(lines, n) ==
  IF n > Len(lines) THEN <<>>
  ELSE Chars("- ") \o lines[n] \o (IF n < Len(lines) THEN <<NL>> ELSE <<>>)
         \o ListItems(lines, n + 1)

\* selectedText.split('\n').map(line => `- ${line}`).join('\n')
ListLines(selectedText) == ListItems(SplitOnChar(selectedText, NL), 1)

FormatTypes == {"bold", "italic", "heading", "link", "list"}

\* formattedText of handleFormat
FormattedText(type, selectedText) ==
  CASE type = "bold" -> Chars("**") \o selectedText \o Chars("**")
    [] type = "italic" -> Chars("*") \o selectedText \o Chars("*")
    [] type = "heading" -> Chars("\n# ") \o selectedText \o Chars("\n")
    [] type = "link" -> Chars("[") \o selectedText \o Chars("](url)")
    [] type = "list" -> ListLines(selectedText)

\* content.substring(0, start) + inserted + content.substring(end)
Splice(start, inserted, end) ==
  substring(content, 0, start) \o inserted \o substring(content, end, Len(content))

\* the event a step records in called
Event(name) ==
  /\ called' = name
  /\ UNCHANGED <<text, ret>>

\* the values the textarea reports to onChange
TypedValues == {<<>>, Chars("a"), Chars("# a"), Chars("a b.")}

\* the child nodes of tempDiv for the pasted data: plain text, a heading, two
\* paragraphs, a list, a link
Clipboards ==
  {<<TextNode(Chars("a"))>>,
   <<Element("h1", <<>>, <<TextNode(Chars("a"))>>)>>,
   <<Element("p", <<>>, <<TextNode(Chars("a"))>>),
     Element("p", <<>>, <<TextNode(Chars("b"))>>)>>,
   <<Element("ul", <<>>, <<Element("li", <<>>, <<TextNode(Chars("a"))>>)>>)>>,
   <<Element("a", Chars("u"), <<TextNode(Chars("a"))>>)>>}

\* the texts the text generation service answers with
GeneratedTexts == {Chars("b."), Chars("# b")}

\* the selections of the textarea (selectionStart, selectionEnd): the caret at
\* the start, the caret at the end, the whole text selected
Selections == {<<0, 0>>, <<Len(content), Len(content)>>, <<0, Len(content)>>}

Init ==
  /\ InitUI
  /\ text = <<>>
  /\ called = "none"
  /\ ret = NoValue

\* handleContentChange: onChange of the textarea with e.target.value = value
handleContentChange(value) ==
  /\ content' = value
  /\ analyzeSEO(value)
  /\ Event("handleContentChange")
  /\ UNCHANGED <<loading, error, request>>

\* handlePaste: onPaste of the textarea with the selection start..end
handlePaste(nodes, start, end) ==
  \E newContent \in {Splice(start, PastedMarkdown(nodes), end)} :
    /\ Len(newContent) <= MaxContentLen
    /\ content' = newContent
    /\ analyzeSEO(newContent)
    /\ Event("handlePaste")
    /\ UNCHANGED <<loading, error, request>>

\* handleFormat(type) with the selection start..end
handleFormat(type, start, end) ==
  \E newContent \in
       {Splice(start, FormattedText(type, substring(content, start, end)), end)} :
    /\ Len(newContent) <= MaxContentLen
    /\ content' = newContent
    /\ analyzeSEO(newContent)
    /\ Event("handleFormat")
    /\ UNCHANGED <<loading, error, request>>

\* improveReadability(content) up to its await, for a button that is not
\* disabled while loading
improveReadabilityWhileLoading ==
  /\ loading' = TRUE
  /\ error' = "null"
  /\ request' = [pending |-> TRUE, text |-> content]
  /\ Event("improveReadability")
  /\ UNCHANGED <<content, analysis>>

\* improveReadability(content) up to its await: the click on the button, which
\* is disabled while loading
improveReadability ==
  /\ ~loading
  /\ loading' = TRUE
  /\ error' = "null"
  /\ request' = [pending |-> TRUE, text |-> content]
  /\ Event("improveReadability")
  /\ UNCHANGED <<content, analysis>>

\* improveReadability after its await, for a handler that keeps a content
\* edited since the click
improveReadabilityResolvedKeepingEdits(generated_text) ==
  /\ request.pending
  /\ content' = IF content = request.text THEN generated_text ELSE content
  /\ readabilityScore' = calculateReadabilityScore_part000(request.text)
  /\ loading' = FALSE
  /\ request' = NoRequest
  /\ Event("improveReadabilityResolved")
  /\ UNCHANGED <<seoScore, suggestions, hardSentences, veryHardSentences, grade, error>>

\* improveReadability after its await, when hf.textGeneration resolves
improveReadabilityResolved(generated_text) ==
  /\ request.pending
  /\ content' = generated_text
  /\ readabilityScore' = calculateReadabilityScore_part000(request.text)
  /\ loading' = FALSE
  /\ request' = NoRequest
  /\ Event("improveReadabilityResolved")
  /\ UNCHANGED <<seoScore, suggestions, hardSentences, veryHardSentences, grade, error>>

\* improveReadability after its await, when hf.textGeneration rejects
improveReadabilityRejected ==
  /\ request.pending
  /\ error' = "Failed to improve text. Please try again."
  /\ loading' = FALSE
  /\ request' = NoRequest
  /\ Event("improveReadabilityRejected")
  /\ UNCHANGED <<content, analysis>>

Next ==
  \/ \E value \in TypedValues : handleContentChange(value)
  \/ \E nodes \in Clipboards, sel \in Selections : handlePaste(nodes, sel[1], sel[2])
  \/ \E type \in FormatTypes, sel \in Selections : handleFormat(type, sel[1], sel[2])
  \/ improveReadability
  \/ \E generated_text \in GeneratedTexts : improveReadabilityResolved(generated_text)
  \/ improveReadabilityRejected

Spec == Init /\ [][Next]_vars

\* the promise of hf.textGeneration settles: the code after the await runs,
\* in the try block or in the catch block, and then the finally block
Settled ==
  \/ \E generated_text \in GeneratedTexts : improveReadabilityResolved(generated_text)
  \/ improveReadabilityRejected

\* the App component with a text generation service that answers or fails
\* every request
FairSpec == Spec /\ WF_vars(Settled)

(***************************************************************************)
(* Properties of the scores (under SpecFn: one function called on one      *)
(* text).                                                                  *)
(***************************************************************************)
\* C1: the overall score analyzeSEO stores is an integer in 0..100, and the
\* score and the grade analyzeReadability returns are an integer in 0..100 and
\* an integer in 1..12: none of the three is NaN or infinite.
C1_ScoresInRange ==
  /\ called = "analyzeSEO" => IsIntegerIn(seoScore, 0, 100)
  /\ called = "analyzeReadability" =>
       /\ IsIntegerIn(ret.value.score, 0, 100)
       /\ IsIntegerIn(ret.value.grade, 1, 12)

\* analyzeReadability('') returns the grade NaN
C1_EmptyTextGradeNaN ==
  /\ called = "analyzeReadability"
  /\ text = <<>>
  /\ ret.value.score = Int2Num(100)
  /\ ret.value.grade = NaN

\* a text of whitespace and '.', '!', '?' only: it has no sentence, or no word
NoSentenceOrNoWord(t) == \A i \in 1..Len(t) : IsWs(t[i]) \/ IsSentenceEnd(t[i])

\* C2: for a text with zero sentences or zero words (empty, whitespace only,
\* or made of '.', '!' and '?' only) analyzeReadability returns score 100,
\* grade 1 and no hard or very hard sentence.
C2_EmptyTextDefaults ==
  (called = "analyzeReadability" /\ NoSentenceOrNoWord(text)) =>
     ret.value = [score |-> Int2Num(100), grade |-> Int2Num(1),
                  hardSentences |-> <<>>, veryHardSentences |-> <<>>]

\* analyzeReadability('.') returns the grade 12: one word, no sentence
C2_TerminatorOnlyGrade12 ==
  /\ called = "analyzeReadability"
  /\ text = <<".">>
  /\ ret.value = [score |-> Int2Num(100), grade |-> Int2Num(12),
                  hardSentences |-> <<>>, veryHardSentences |-> <<>>]

\* C3: each of the eight checks, analyzeSEO and analyzeReadability returns
\* without throwing, whatever the text: empty, whitespace only, or with an
\* unterminated link or image.
C3_NoThrow == called # "none" => ~ret.threw

\* checkLinks has returned for a text that ends in an unterminated link
C3_UnterminatedLinkReturns ==
  /\ called = "checkLinks"
  /\ text = Chars("[a](u) [a](")
  /\ ~ret.threw
  /\ ret.score = Num(1, 1)

\* the eight scores and the eight suggestion lists in the order keyword
\* density, title length, meta description, headings, links, image alt text,
\* content length, paragraph length
C4_SumOfScores(t) ==
  jsAdd(jsAdd(jsAdd(jsAdd(calculateKeywordDensity(t).score, checkTitleLength(t).score),
                    jsAdd(checkMetaDescription(t).score, checkHeadings(t).score)),
              jsAdd(jsAdd(checkLinks(t).score, checkImageAlt(t).score),
                    checkContentLength(t).score)),
        checkParagraphLength(t).score)
C4_AllSuggestions(t) ==
  calculateKeywordDensity(t).suggestions \o checkTitleLength(t).suggestions
    \o checkMetaDescription(t).suggestions \o checkHeadings(t).suggestions
    \o checkLinks(t).suggestions \o checkImageAlt(t).suggestions
    \o checkContentLength(t).suggestions \o checkParagraphLength(t).suggestions

ContentChanges ==
  {"handleContentChange", "handlePaste", "handleFormat", "improveReadabilityResolved"}

\* the displayed results are those of analyzing t
DisplaysAnalysisOf(t) ==
  /\ seoScore = AnalyzeSEOResult(t).seoScore
  /\ suggestions = AnalyzeSEOResult(t).suggestions
  /\ readabilityScore = AnalyzeSEOResult(t).readabilityScore
  /\ grade = AnalyzeSEOResult(t).grade
  /\ hardSentences = AnalyzeSEOResult(t).hardSentences
  /\ veryHardSentences = AnalyzeSEOResult(t).veryHardSentences

\* C5: after typing, a paste, a format or a successful improveReadability
\* response, whenever no request is in flight, the displayed seoScore,
\* suggestions, readabilityScore, grade, hardSentences and veryHardSentences
\* are the results of analyzing the displayed content.
C5_AnalysisFollowsContent ==
  (called \in ContentChanges /\ ~request.pending) => DisplaysAnalysisOf(content)

\* the response to improveReadability has replaced the typed '# a' by 'b.':
\* the overall score and the suggestions shown are still those of '# a'
C5_StaleAfterImprove ==
  /\ called = "improveReadabilityResolved"
  /\ ~request.pending
  /\ content = Chars("b.")
  /\ seoScore = AnalyzeSEOResult(Chars("# a")).seoScore
  /\ seoScore # AnalyzeSEOResult(content).seoScore
  /\ suggestions # AnalyzeSEOResult(content).suggestions

(***************************************************************************)
(* Properties of the checks (under SpecFn), stated on the lines, links and *)
(* words of the text.                                                      *)
(***************************************************************************)
\* the lines of a text
LinesOf(t) == SplitOnChar(t, NL)

\* whitespace inside a line
IsBlank(c) == c \in {SP, TAB}

\* a heading line: one to six '#', whitespace, then text, all on the line
IsHeadingLine(l) ==
  \E h \in 1..6 :
    /\ Len(l) >= h + 2
    /\ \A i \in 1..h : l[i] = "#"
    /\ IsBlank(l[h + 1])

\* an H1 line and an H2 line: a heading line that starts with '# ', with '## '
IsH1Line(l) == IsHeadingLine(l) /\ startsWith(l, Chars("# "))
IsH2Line(l) == IsHeadingLine(l) /\ startsWith(l, Chars("## "))

\* what C6 says checkHeadings returns
C6_Expected(t) ==
  LET ls == LinesOf(t)
      h1 == Cardinality({p \in 1..Len(ls) : IsH1Line(ls[p])})
      noH2 == ~\E p \in 1..Len(ls) : IsH2Line(ls[p])
      baseScore == IF h1 = 0 THEN Num(3, 10) ELSE IF h1 > 1 THEN Num(5, 10) ELSE Num(1, 1)
      h1Suggestion ==
        IF h1 = 0 THEN <<"Add a main heading (H1) to your content.">>
        ELSE IF h1 > 1 THEN <<"Multiple H1 headings found. Use only one main heading.">>
        ELSE <<>>
  IN IF ~\E p \in 1..Len(ls) : IsHeadingLine(ls[p])
     THEN Result(Num(0, 1), <<"No headings found. Use headings to structure your content.">>)
     ELSE IF noH2
     THEN Result(jsMul(baseScore, Num(7, 10)),
            h1Suggestion \o <<"Add subheadings (H2, H3) to better structure your content.">>)
     ELSE Result(baseScore, h1Suggestion)

\* C6: checkHeadings gives 0 and 'no headings' without a heading line;
\* otherwise 0.3 and 'add H1' without an H1 line, 0.5 and 'only one H1' with
\* several, 1 with exactly one; and without an H2 line the score times 0.7 and
\* 'add subheadings' after the H1 suggestion.  Two H1 lines and no H2 line
\* give 0.35 and two suggestions.
C6_HeadingRules == called = "checkHeadings" => ret = C6_Expected(text)

\* two H1 lines under a line that holds only '#': checkHeadings gives 0.7 and
\* one suggestion, where C6 says 0.35 and two
C6_TwoH1ScoredAsOne ==
  /\ called = "checkHeadings"
  /\ text = Chars("#\n# a\n# a")
  /\ ret = Result(Num(7, 10),
             <<"Add subheadings (H2, H3) to better structure your content.">>)
  /\ C6_Expected(text).score = Num(35, 100)
  /\ Len(C6_Expected(text).suggestions) = 2

\* a markdown link '[text](url)' starts at i: its text, which may be empty, has
\* no ']' and its url, which is not empty, has no ')'
IsLinkAt(t, i) ==
  /\ t[i] = "["
  /\ LET j == IndexOfFrom(t, "]", i + 1)
     IN /\ j # 0 /\ j + 1 <= Len(t) /\ t[j + 1] = "("
        /\ IndexOfFrom(t, ")", j + 2) > j + 2

\* the link that starts at i has empty anchor text
HasEmptyAnchorAt(t, i) == IsLinkAt(t, i) /\ t[i + 1] = "]"

\* what C7 says checkLinks returns
C7_Expected(t) ==
  IF ~\E i \in 1..Len(t) : IsLinkAt(t, i)
  THEN Result(Num(5, 10),
    <<"No links found. Add relevant internal or external links to enhance content value.">>)
  ELSE IF \E i \in 1..Len(t) : HasEmptyAnchorAt(t, i)
  THEN Result(Num(7, 10),
    <<"Some links have empty anchor text. Add descriptive text to all links.">>)
  ELSE Result(Num(1, 1), <<>>)

\* C7: checkLinks gives 0.5 and 'add links' without a markdown link, 0.7 and
\* 'empty anchor text' when some link has empty anchor text and only then, 1
\* and no suggestion otherwise; never more than one suggestion.
C7_LinkRules ==
  called = "checkLinks" => ret = C7_Expected(text) /\ Len(ret.suggestions) <= 1

\* for the link '[](u)', whose anchor text is empty, checkLinks gives 0.5 and
\* 'no links found'
C7_EmptyAnchorNotFound ==
  /\ called = "checkLinks"
  /\ text = Chars("[](u)")
  /\ ret = Result(Num(5, 10),
             <<"No links found. Add relevant internal or external links to enhance content value.">>)
  /\ C7_Expected(text).score = Num(7, 10)

\* the first paragraph of a text: what precedes its first blank line
FirstParagraph(t) ==
  LET blank == {i \in 1..(Len(t) - 1) : t[i] = NL /\ t[i + 1] = NL}
  IN IF blank = {} THEN t ELSE SubSeq(t, 1, Min(blank) - 1)

\* a paragraph without its leading heading line, if it has one
WithoutHeadingLine(p) ==
  IF ~startsWith(p, <<"#">>) THEN p
  ELSE IF IndexOfFrom(p, NL, 1) = 0 THEN <<>>
  ELSE SubSeq(p, IndexOfFrom(p, NL, 1) + 1, Len(p))

\* what C8 says checkMetaDescription returns
C8_Expected(t) ==
  LET intro == trim(WithoutHeadingLine(FirstParagraph(t)))
  IN IF intro = <<>>
     THEN Result(Num(0, 1),
       <<"Add a clear introductory paragraph that summarizes your content.">>)
     ELSE IF Len(intro) < 120
     THEN Result(Num(5, 10),
       <<"Introduction is too short. Aim for 150-160 characters for better search visibility.">>)
     ELSE IF Len(intro) > 160
     THEN Result(Num(7, 10),
       <<"Introduction is too long. Keep it under 160 characters for optimal display in search results.">>)
     ELSE Result(Num(1, 1), <<>>)

\* C8: checkMetaDescription scores the first paragraph without its leading
\* heading line, trimmed: empty gives 0 and 'add intro', shorter than 120
\* gives 0.5, longer than 160 gives 0.7, otherwise 1.  A first paragraph that
\* is only a heading line gives 0 and 'add intro'.
C8_MetaDescriptionRules == called = "checkMetaDescription" => ret = C8_Expected(text)

\* for a heading line, a blank line and a body, checkMetaDescription scores
\* the heading itself: 0.5 and 'too short', where C8 says 0 and 'add intro'
C8_HeadingScoredAsIntro ==
  /\ called = "checkMetaDescription"
  /\ text = Chars("# a\n\na")
  /\ ret = Result(Num(5, 10),
             <<"Introduction is too short. Aim for 150-160 characters for better search visibility.">>)
  /\ C8_Expected(text).score = Num(0, 1)

\* a title line: '#', whitespace, then text, all on the line
IsTitleLine(l) == Len(l) >= 3 /\ l[1] = "#" /\ IsBlank(l[2])

\* the title of a title line: what follows its whitespace, its last character
\* when whitespace is all that follows the '#'
TitleOf(l) ==
  LET rest == {i \in 3..Len(l) : ~IsBlank(l[i])}
  IN IF rest = {} THEN <<l[Len(l)]>> ELSE SubSeq(l, Min(rest), Len(l))

\* what C9 says checkTitleLength returns
C9_Expected(t) ==
  LET ls == LinesOf(t)
      titled == {p \in 1..Len(ls) : IsTitleLine(ls[p])}
  IN IF titled = {}
     THEN Result(Num(0, 1),
       <<"No main title (H1) found. Add a clear title at the beginning.">>)
     ELSE LET titleLength == Len(TitleOf(ls[Min(titled)]))
          IN IF titleLength < 30
             THEN Result(Num(5, 10),
               <<"Title is too short. Aim for 50-60 characters for better SEO.">>)
             ELSE IF titleLength > 60
             THEN Result(Num(7, 10),
               <<"Title is too long. Keep it under 60 characters for better visibility in search results.">>)
             ELSE Result(Num(1, 1), <<>>)

\* C9: checkTitleLength gives 0 and 'no main title' for a text without a line
\* '#', whitespace, title; otherwise the title is the text of the first such
\* line, on that line only, and the score is 0.5 and 'too short' under 30
\* characters, 0.7 and 'too long' over 60, 1 from 30 to 60.
C9_TitleRules == called = "checkTitleLength" => ret = C9_Expected(text)

\* for a line that holds only '#' with text on the next line, checkTitleLength
\* takes that text as the title: 0.5 and 'too short', where C9 says 0
C9_TitleFromNextLine ==
  /\ called = "checkTitleLength"
  /\ text = Chars("#\na")
  /\ ret = Result(Num(5, 10),
             <<"Title is too short. Aim for 50-60 characters for better SEO.">>)
  /\ C9_Expected(text).score = Num(0, 1)

\* the places where a whitespace-separated word of t starts
WordStarts(t) == {i \in 1..Len(t) : ~IsWs(t[i]) /\ (i = 1 \/ IsWs(t[i - 1]))}

\* the word that starts at i, lower-cased: up to the next whitespace
WordFrom(t, i) ==
  LET stops == {j \in i..Len(t) : IsWs(t[j])}
  IN toLowerCase(SubSeq(t, i, IF stops = {} THEN Len(t) ELSE Min(stops) - 1))

\* K of C10: the distinct lower-cased words longer than 3 characters that
\* occur more than once
RepeatedLongWords(t) ==
  {w \in {WordFrom(t, i) : i \in WordStarts(t)} :
     Len(w) > 3 /\ Cardinality({i \in WordStarts(t) : WordFrom(t, i) = w}) > 1}

\* what C10 says calculateKeywordDensity returns
C10_Expected(t) ==
  LET K == Cardinality(RepeatedLongWords(t))
  IN IF K = 0
     THEN Result(Num(3, 10),
       <<"No clear keywords found. Consider using relevant keywords multiple times.">>)
     ELSE IF K <= 2
     THEN Result(Num(6, 10),
       <<"Limited keyword usage. Try incorporating more relevant keywords.">>)
     ELSE Result(Num(1, 1), <<>>)

\* C10: with K the number of distinct lower-cased whitespace-separated words
\* longer than 3 characters that occur more than once, calculateKeywordDensity
\* gives 0.3 and 'no clear keywords' for K = 0, 0.6 and 'limited keyword
\* usage' for K = 1 or 2, 1 and no suggestion for K >= 3.
C10_KeywordRules ==
  called = "calculateKeywordDensity" => ret = C10_Expected(text)

\* 'constructor' twice is one repeated long word: calculateKeywordDensity
\* gives 0.3 and 'no clear keywords', where C10 says 0.6
C10_ConstructorNotCounted ==
  /\ called = "calculateKeywordDensity"
  /\ text = Chars("constructor constructor ")
  /\ Cardinality(RepeatedLongWords(text)) = 1
  /\ ret = Result(Num(3, 10),
             <<"No clear keywords found. Consider using relevant keywords multiple times.">>)

(***************************************************************************)
(* Properties of the content length and paragraph length checks (under     *)
(* SpecFn).                                                                *)
(***************************************************************************)
\* the number of non-empty whitespace-separated words of t
WordCount(t) == Cardinality(WordStarts(t))

\* what C11 says checkContentLength returns
C11_Expected(t) ==
  IF WordCount(t) < 300
  THEN Result(Num(3, 10),
    <<"Content is too short. Aim for at least 300 words for better SEO.">>)
  ELSE IF WordCount(t) < 600
  THEN Result(Num(7, 10),
    <<"Consider adding more content. Long-form content (1000+ words) typically ranks better.">>)
  ELSE Result(Num(1, 1), <<>>)

\* C11: with W the number of non-empty whitespace-separated words,
\* checkContentLength gives 0.3 and 'too short' for W < 300, 0.7 and 'consider
\* 1000+ words' for 300 <= W < 600, 1 and no suggestion for W >= 600; leading
\* and trailing whitespace add nothing to W.
C11_ContentLengthRules ==
  called = "checkContentLength" => ret = C11_Expected(text)

\* 299 words after a leading space are scored as 300 words: 0.7, where C11
\* says 0.3
C11_LeadingSpaceCounted ==
  /\ called = "checkContentLength"
  /\ text = <<SP>> \o WordsText(299)
  /\ WordCount(text) = 299
  /\ ret = Result(Num(7, 10),
             <<"Consider adding more content. Long-form content (1000+ words) typically ranks better.">>)

\* the paragraphs of t: the pieces between runs of two or more line breaks
ParagraphStarts(t) ==
  {i \in 1..(Len(t) + 1) :
     \/ i = 1
     \/ i >= 3 /\ t[i - 1] = NL /\ t[i - 2] = NL /\ (i > Len(t) \/ t[i] # NL)}
ParagraphFrom(t, i) ==
  LET stops == {j \in i..(Len(t) - 1) : t[j] = NL /\ t[j + 1] = NL}
  IN SubSeq(t, i, IF stops = {} THEN Len(t) ELSE Min(stops) - 1)

\* what C12 says checkParagraphLength returns
C12_Expected(t) ==
  IF \E i \in ParagraphStarts(t) : WordCount(ParagraphFrom(t, i)) > 150
  THEN Result(Num(7, 10),
    <<"Some paragraphs are too long. Break them into smaller chunks for better readability.">>)
  ELSE Result(Num(1, 1), <<>>)

\* C12: checkParagraphLength gives 0.7 and 'break up long paragraphs' exactly
\* when some paragraph between blank lines has more than 150 words, and 1
\* with no suggestion otherwise, whatever whitespace is around the words of a
\* paragraph.
C12_ParagraphLengthRules ==
  called = "checkParagraphLength" => ret = C12_Expected(text)

\* a single paragraph of exactly 150 words after a leading space is flagged
C12_LeadingSpaceFlagged ==
  /\ called = "checkParagraphLength"
  /\ text = <<SP>> \o WordsText(150)
  /\ WordCount(text) = 150
  /\ ret = Result(Num(7, 10),
             <<"Some paragraphs are too long. Break them into smaller chunks for better readability.">>)

(***************************************************************************)
(* Properties of the image check (under SpecFn).                           *)
(***************************************************************************)
\* a markdown image ![](url) with an empty alt text starts at i: "![](", a
\* url of one or more characters other than ')', then ')'
HasEmptyAltImageAt(t, i) ==
  /\ i + 5 <= Len(t)
  /\ SubSeq(t, i, i + 3) = Chars("![](")
  /\ t[i + 4] # ")"
  /\ \E k \in (i + 5)..Len(t) : t[k] = ")"

\* what C13 says checkImageAlt returns
C13_Expected(t) ==
  IF \E i \in 1..Len(t) : HasEmptyAltImageAt(t, i)
  THEN Result(Num(5, 10),
    <<"Some images are missing alt text. Add descriptive alt text to all images.">>)
  ELSE Result(Num(1, 1), <<>>)

\* C13: checkImageAlt gives 0.5 and 'missing alt text' exactly when the text
\* holds a markdown image whose alt text is empty, and 1 with no suggestion
\* when it holds no image or only images with an alt text.
C13_ImageAltRules ==
  called = "checkImageAlt" => ret = C13_Expected(text)

\* the one image of '![a](![]()' has the alt text 'a', and checkImageAlt
\* reports a missing alt text
C13_AltTextReportedMissing ==
  /\ called = "checkImageAlt"
  /\ text = Chars("![a](![]()")
  /\ ~\E i \in 1..Len(text) : HasEmptyAltImageAt(text, i)
  /\ ret = Result(Num(5, 10),
             <<"Some images are missing alt text. Add descriptive alt text to all images.">>)

(***************************************************************************)
(* Properties of analyzeReadability of src/src/App.tsx (under SpecFn).     *)
(***************************************************************************)
\* the word of t that starts at i: up to the first character followed by
\* whitespace or by the end of t
WordAt(t, i) ==
  SubSeq(t, i, CHOOSE e \in i..Len(t) : e = Len(t) \/ IsWs(t[e + 1]))

\* the syllables of the non-empty words of t, summed
SyllableCount(t) ==
  LET IsStart(i) == ~IsWs(t[i]) /\ (i = 1 \/ IsWs(t[i - 1]))
      starts == SelectSeq([i \in 1..Len(t) |-> i], IsStart)
  IN Sum([p \in 1..Len(starts) |-> countSyllables(WordAt(t, starts[p]))])

\* the class C14 gives a sentence with n words and y syllables: m = y / n,
\* m > 2.5 is 2 * y > 5 * n and m > 2.0 is y > 2 * n
C14_Class(sentence) ==
  LET n == WordCount(sentence)
      y == SyllableCount(sentence)
  IN IF n > 30 \/ 2 * y > 5 * n THEN "veryHard"
     ELSE IF n > 20 \/ y > 2 * n THEN "hard"
     ELSE "normal"

C14_IsHard(sentence) == C14_Class(sentence) = "hard"
C14_IsVeryHard(sentence) == C14_Class(sentence) = "veryHard"

\* C14: hardSentences and veryHardSentences are the sentences of the text, in
\* the order of the text and trimmed, whose class is hard and very hard: very
\* hard for n > 30 words or m > 2.5 syllables per word, otherwise hard for
\* n > 20 or m > 2.0, otherwise in neither list; no sentence is in both lists.
C14_Classification ==
  called = "analyzeReadability" =>
    /\ ret.value.hardSentences = Trimmed(SelectSeq(Sentences(text), C14_IsHard))
    /\ ret.value.veryHardSentences = Trimmed(SelectSeq(Sentences(text), C14_IsVeryHard))
    /\ \A i \in 1..Len(ret.value.hardSentences) :
         \A j \in 1..Len(ret.value.veryHardSentences) :
           ret.value.hardSentences[i] # ret.value.veryHardSentences[j]

\* a sentence of three words and seven syllables is hard, the sentence of 31
\* one-syllable words after it is very hard
C14_HardThenVeryHard ==
  /\ called = "analyzeReadability"
  /\ text = Chars("banana banana go. ") \o WordsText(31)
  /\ ret.value.hardSentences = <<Chars("banana banana go")>>
  /\ ret.value.veryHardSentences = <<WordsText(31)>>

\* S: the runs of characters other than '.', '!' and '?' that hold a
\* character other than whitespace, counted by the first such character of
\* each run
SentenceCount(t) ==
  Cardinality({i \in 1..Len(t) :
    /\ ~IsSentenceEnd(t[i]) /\ ~IsWs(t[i])
    /\ ~\E d \in 1..(i - 1) :
          /\ ~IsSentenceEnd(t[i - d]) /\ ~IsWs(t[i - d])
          /\ \A k \in (i - d + 1)..(i - 1) : ~IsSentenceEnd(t[k])})

\* x rounded to the nearest integer, halves upwards, for x = num / den, den > 0
RoundRatio(num, den) == (2 * num + den) \div (2 * den)

\* g = 0.39 * W / S + 11.8 * Y / W - 15.59 as the fraction GradeNum / GradeDen
GradeNum(S, W, Y) == 39 * W * W + 1180 * Y * S - 1559 * S * W
GradeDen(S, W) == 100 * S * W

\* round(g) clamped to 1..12
C15_Grade(S, W, Y) ==
  Max({1, Min({12, RoundRatio(GradeNum(S, W, Y), GradeDen(S, W))})})

\* round(100 - 8 * g clamped to 0..100)
C15_Score(S, W, Y) ==
  LET num == 100 * GradeDen(S, W) - 8 * GradeNum(S, W, Y)
  IN IF num <= 0 THEN 0
     ELSE IF num >= 100 * GradeDen(S, W) THEN 100
     ELSE RoundRatio(num, GradeDen(S, W))

ParagraphsOf(t) ==
  LET starts == ParagraphStarts(t)
      IsStart(i) == i \in starts
      seq == SelectSeq([i \in 1..(Len(t) + 1) |-> i], IsStart)
  IN [p \in 1..Len(seq) |-> ParagraphFrom(t, seq[p])]

\* the first n paragraphs of ps in the given order, joined by blank lines
RECURSIVE JoinParagraphs(_, _, _)
JoinParagraphs(ps, order, n) ==
  IF n = 0 THEN <<>>
  ELSE IF n = 1 THEN ps[order[1]]
  ELSE JoinParagraphs(ps, order, n - 1) \o <<NL, NL>> \o ps[order[n]]

\* the orders of k paragraphs
Orders(k) == {f \in [1..k -> 1..k] : \A i, j \in 1..k : f[i] = f[j] => i = j}

\* t is its paragraphs joined by single blank lines
IsJoinedByBlankLines(t) ==
  JoinParagraphs(ParagraphsOf(t), [i \in 1..Len(ParagraphsOf(t)) |-> i],
                 Len(ParagraphsOf(t))) = t

\* the texts made of the paragraphs of t in another order
Reordered(t) ==
  {JoinParagraphs(ParagraphsOf(t), f, Len(ParagraphsOf(t))) :
     f \in Orders(Len(ParagraphsOf(t)))}

\* C16: for a text made of paragraphs joined by blank lines,
\* calculateKeywordDensity and checkContentLength return the same score and
\* suggestions for the paragraphs in any other order.
C16_ParagraphOrder ==
  /\ (called = "calculateKeywordDensity" /\ IsJoinedByBlankLines(text)) =>
       \A u \in Reordered(text) : calculateKeywordDensity(u) = ret
  /\ (called = "checkContentLength" /\ IsJoinedByBlankLines(text)) =>
       \A u \in Reordered(text) : checkContentLength(u) = ret

\* a paragraph of 298 words that starts with a space and the paragraph 'a':
\* 0.7 in this order, 0.3 in the other
C16_OrderChangesContentLength ==
  /\ called = "checkContentLength"
  /\ text = <<SP>> \o WordsText(298) \o Chars("\n\na")
  /\ IsJoinedByBlankLines(text)
  /\ Chars("a\n\n ") \o WordsText(298) \in Reordered(text)
  /\ ret.score = Num(7, 10)
  /\ checkContentLength(Chars("a\n\n ") \o WordsText(298)).score = Num(3, 10)

(***************************************************************************)
(* The empty text (under SpecFn).                                          *)
(***************************************************************************)
\* a, b and c are elements of s, in this order
InOrder(s, a, b, c) ==
  \E i, j, k \in 1..Len(s) : i < j /\ j < k /\ s[i] = a /\ s[j] = b /\ s[k] = c

\* C17: for the empty text the suggestions of analyzeSEO hold the missing
\* title suggestion, the no headings suggestion and the content too short
\* suggestion, in this order, and checkTitleLength, checkMetaDescription and
\* checkHeadings each return the score 0.
C17_EmptyText ==
  text = <<>> =>
    /\ called = "analyzeSEO" =>
         /\ ~ret.threw
         /\ InOrder(suggestions,
              "No main title (H1) found. Add a clear title at the beginning.",
              "No headings found. Use headings to structure your content.",
              "Content is too short. Aim for at least 300 words for better SEO.")
    /\ called \in {"checkTitleLength", "checkMetaDescription", "checkHeadings"} =>
         ret.score = Num(0, 1)

\* analyzeSEO('') stores the score 39 and six suggestions
C17_EmptyTextAnalyzed ==
  /\ text = <<>>
  /\ called = "analyzeSEO"
  /\ seoScore = Int2Num(39)
  /\ suggestions =
       <<"No clear keywords found. Consider using relevant keywords multiple times.",
         "No main title (H1) found. Add a clear title at the beginning.",
         "Add a clear introductory paragraph that summarizes your content.",
         "No headings found. Use headings to structure your content.",
         "No links found. Add relevant internal or external links to enhance content value.",
         "Content is too short. Aim for at least 300 words for better SEO.">>

(***************************************************************************)
(* Properties of countSyllables of src/src/App.tsx (under SpecFn).         *)
(***************************************************************************)
\* the maximal runs of the letters a, e, i, o, u, y in w, counted
VowelClusters(w) ==
  Cardinality({i \in 1..Len(w) : IsAEIOUY(w[i]) /\ (i = 1 \/ ~IsAEIOUY(w[i - 1]))})

\* the letters of t, lower-cased, without a final 'e'
LettersWithoutFinalE(t) ==
  LET letters == SelectSeq(toLowerCase(t), IsLowerLetter)
  IN IF Len(letters) > 0 /\ letters[Len(letters)] = "e"
     THEN SubSeq(letters, 1, Len(letters) - 1)
     ELSE letters

\* C18: countSyllables returns a non-negative integer, the number of runs of
\* adjacent vowel letters (a, e, i, o, u, y) of the lower-cased letters of the
\* string with a final 'e' removed: 0 for the empty string and for a string
\* with no vowel letter.
C18_VowelClusters ==
  called = "countSyllables" =>
    /\ ret.value \in Nat
    /\ ret.value = VowelClusters(LettersWithoutFinalE(text))

\* 'day' has one run of vowel letters, 'ay', and countSyllables returns 2
C18_DayCountsTwo ==
  /\ called = "countSyllables"
  /\ text = Chars("day")
  /\ VowelClusters(LettersWithoutFinalE(text)) = 1
  /\ ret.value = 2

(***************************************************************************)
(* Properties of improveReadability (under Spec and FairSpec: the handlers *)
(* of the App component).                                                  *)
(***************************************************************************)
\* C19: loading is true exactly while a request is in flight; no request is
\* started while loading, so at most one is in flight; a started request has
\* loading true and no error message; after the request resolves or rejects
\* loading is false, and after it rejects the error message is set; every
\* request that is started leads to loading being false again.
C19_LoadingProtocol ==
  /\ [](loading <=> request.pending)
  /\ [][loading => called' # "improveReadability"]_vars
  /\ [](called = "improveReadability" => (loading /\ error = "null"))
  /\ [](called \in {"improveReadabilityResolved", "improveReadabilityRejected"} => ~loading)
  /\ [](called = "improveReadabilityRejected" =>
          error = "Failed to improve text. Please try again.")
  /\ (loading ~> ~loading)

\* a request has been rejected: loading is false again and the error message
\* is shown
C19_RejectedShowsError ==
  /\ called = "improveReadabilityRejected"
  /\ ~loading
  /\ ~request.pending
  /\ error = "Failed to improve text. Please try again."

\* C20: while a request is in flight the textarea can still be edited; the
\* request holds the content of the click and edits do not change it; when
\* the request resolves the content becomes the generated text, whatever was
\* typed since the click; when it rejects the content and the displayed
\* analysis stay as they are.
C20_EditsWhileInFlight ==
  /\ [](loading => ENABLED (\E value \in TypedValues : handleContentChange(value)))
  /\ [][called' = "improveReadability" =>
          (request'.pending /\ request'.text = content)]_vars
  /\ [][(request.pending /\ request'.pending) => request'.text = request.text]_vars
  /\ [][(request.pending /\ called' = "improveReadabilityResolved") =>
          content' \in GeneratedTexts]_vars
  /\ [][(request.pending /\ called' = "improveReadabilityRejected") =>
          (content' = content /\ analysis' = analysis)]_vars

\* an edit made while the request is in flight: the content differs from the
\* text the request was made for
C20_EditedWhileInFlight ==
  /\ loading
  /\ request.pending
  /\ called = "handleContentChange"
  /\ content = Chars("a b.")
  /\ request.text = Chars("a")

(***************************************************************************)
(* Scores and suggestions together (under SpecFn).                         *)
(***************************************************************************)
\* the names of the eight checks
CheckNames ==
  {"calculateKeywordDensity", "checkTitleLength", "checkMetaDescription",
   "checkHeadings", "checkLinks", "checkImageAlt", "checkContentLength",
   "checkParagraphLength"}

\* C21: each of the eight checks returns the score 1 exactly when it returns
\* no suggestion; the overall score analyzeSEO stores is 100 exactly when it
\* stores no suggestion, and it is at most 96 when it stores a suggestion.
C21_ScoreOneIffNoSuggestion ==
  /\ called \in CheckNames => (ret.score = Num(1, 1) <=> ret.suggestions = <<>>)
  /\ called = "analyzeSEO" =>
       /\ seoScore = Int2Num(100) <=> suggestions = <<>>
       /\ suggestions # <<>> => (seoScore.k = "num" /\ seoScore.n <= 96)

\* a text that passes every check but has no subheading: one suggestion and
\* the overall score 96
C21_OneSuggestionScores96 ==
  /\ called = "analyzeSEO"
  /\ text = SeoText(4)
  /\ suggestions = <<"Add subheadings (H2, H3) to better structure your content.">>
  /\ seoScore = Int2Num(96)

(***************************************************************************)
(* The title check and the headings check together (under SpecFn).         *)
(***************************************************************************)
\* checkHeadings counted no H1 for t: it took its 'no headings' or its 'add
\* H1' branch
CountsNoH1(t) ==
  \E i \in 1..Len(checkHeadings(t).suggestions) :
    checkHeadings(t).suggestions[i] \in
      {"No headings found. Use headings to structure your content.",
       "Add a main heading (H1) to your content."}

\* C22: checkTitleLength reports a missing title (score 0) exactly when
\* checkHeadings counts no H1, also when '#' is followed by a tab or by a
\* line break.
C22_TitleAndHeadingsAgree ==
  called = "checkTitleLength" => (ret.score = Num(0, 1) <=> CountsNoH1(text))

\* '#', a tab, 'a': checkTitleLength finds the title 'a', checkHeadings asks
\* for a main heading
C22_TabTitleIsNoH1 ==
  /\ called = "checkTitleLength"
  /\ text = Chars("#\ta")
  /\ ret = Result(Num(5, 10),
             <<"Title is too short. Aim for 50-60 characters for better SEO.">>)
  /\ CountsNoH1(text)

=============================================================================
